---- MODULE Spec2Model ----
(***************************************************************************)
(* zvec-mcp: chunker, content addresser, knowledge store, memory store,    *)
(* embedding dispatcher and tool surface, as state machines.               *)
(*                                                                         *)
(* Strings are sequences of one-character strings, so that slicing,        *)
(* str.rfind and f-string formatting are computed as Python computes them. *)
(*                                                                         *)
(* Specifications:                                                         *)
(*   SpecChunk  one call of _chunk_text, iteration by iteration            *)
(*   SpecKB     the knowledge tools, called one after another              *)
(*   SpecMem    the memory tools, called one after another                 *)
(*   SpecConc   first tool calls made by concurrent callers                *)
(*   Spec       every tool, called one after another                       *)
(***************************************************************************)
EXTENDS Integers, Sequences, FiniteSets, TLC

(***************************************************************************)
(* Bounds of the model.                                                    *)
(***************************************************************************)
MaxLen == 4
MaxSize == 3
MaxClock == 1
MaxTopK == 2
NCallers == 2
MaxEmbeds == 2
MaxCutLen == 6
MaxCutSize == 5

\* Characters a text is built from: a letter and every character that occurs
\* in a boundary marker of _chunk_text.
Alphabet == {"a", " ", ".", "\n", "!", "?"}

Texts == UNION {[1..n -> Alphabet] : n \in 0..MaxLen}

\* Longer texts, for windows whose search range holds several markers: a
\* letter, the space and the characters of the first four markers.
CutAlphabet == {"a", " ", ".", "\n"}

CutTexts == UNION {[1..n -> CutAlphabet] : n \in 0..MaxCutLen}

VARIABLES
    \* ---- one call of _chunk_text
    text,       \* the argument text
    size,       \* the argument size
    overlap,    \* the argument overlap
    start,      \* the local start
    chunks,     \* the local chunks (the returned list)
    spans,      \* history: <<s, e>> of each appended chunk, chunk = text[s:e]
    seen,       \* history: the values start has had at the head of the loop
    cpc,        \* "idle", "entry", "loop", "done" or "diverged"
    \* ---- the server process
    cfg,        \* server.cfg: [chunk_size, chunk_overlap]
    py,         \* module globals and the objects they hold (see PyInit)
    kb,         \* the knowledge collection: [col, exists, docs]
    mem,        \* the memory collection: [col, exists, docs]
    now,        \* int(time.time())
    last,       \* history: the last tool call and its outcome
    hung,       \* a tool call is in a loop that never ends
    \* ---- concurrent callers
    tpc,        \* position of each caller
    tloc,       \* locals of each caller
    \* ---- one _Embedder and the configuration it was constructed with
    ecfg,       \* Config: [embedding_backend, openai_dimension, http_dimension]
    endpoint,   \* the length of the vectors the HTTP endpoint's model returns
    efn,        \* the _Embedder's _fn: "None" or the backend constructed
    eout,       \* history: the last embed call, [outcome, len]
    ecalls      \* history: the number of embed calls made

chunkVars == <<text, size, overlap, start, chunks, spans, seen, cpc>>

serverVars == <<cfg, py, kb, mem, now, last, hung>>

concVars == <<tpc, tloc>>

embVars == <<ecfg, endpoint, efn, eout, ecalls>>

vars == <<chunkVars, serverVars, concVars, embVars>>

(***************************************************************************)
(* Python helpers.                                                         *)
(***************************************************************************)
SetMax(S) == CHOOSE x \in S : \A y \in S : y <= x

Min2(a, b) == IF a <= b THEN a ELSE b

\* text[a:b] for 0 <= a
Slice(s, a, b) == SubSeq(s, a + 1, Min2(b, Len(s)))

\* s.rfind(sep, lo): the search without its end argument.
Rfind_NoEnd(s, sep, lo, hi) ==
    LET hits == {i \in lo..(Len(s) - Len(sep)) : SubSeq(s, i + 1, i + Len(sep)) = sep}
    IN  IF hits = {} THEN -1 ELSE SetMax(hits)

\* s.rfind(sep, lo, hi): the highest index i with lo <= i, i + len(sep) <= hi
\* and s[i:i+len(sep)] == sep, or -1.
Rfind(s, sep, lo, hi) ==
    LET top == Min2(hi, Len(s))
        hits == {i \in lo..(top - Len(sep)) : SubSeq(s, i + 1, i + Len(sep)) = sep}
    IN  IF hits = {} THEN -1 ELSE SetMax(hits)

(***************************************************************************)
(* _chunk_text (knowledge.py 28-62).                                       *)
(***************************************************************************)
\* The tuple of boundary markers of line 47, in the order it is tried.
Separators ==
    << <<".", "\n">>, <<"\n", "\n">>, <<"\n">>, <<".", " ">>, <<"!", " ">>, <<"?", " ">> >>

\* Lines 46-51 without the break of line 51: the marker tried last wins.
SepCut_NoBreak(t, sz, st) ==
    LET end == st + sz
        lo == st + (sz \div 2)
        found == {k \in 1..Len(Separators) : Rfind(t, Separators[k], lo, end) # -1}
    IN  IF found = {} THEN -1
        ELSE LET k == CHOOSE k \in found : \A j \in found : k >= j
             IN  Rfind(t, Separators[k], lo, end) + Len(Separators[k])

\* Lines 46-51: the cut after the last occurrence of the first marker of the
\* tuple that occurs in [st + size // 2, end), or -1.
SepCut(t, sz, st) ==
    LET end == st + sz
        lo == st + (sz \div 2)
        found == {k \in 1..Len(Separators) : Rfind(t, Separators[k], lo, end) # -1}
    IN  IF found = {} THEN -1
        ELSE LET k == CHOOSE k \in found : \A j \in found : k <= j
             IN  Rfind(t, Separators[k], lo, end) + Len(Separators[k])

\* Lines 46-55 with the space searched from the start of the window.
BestCut_SpaceFromStart(t, sz, st) ==
    LET end == st + sz
        best == SepCut(t, sz, st)
        idx == Rfind(t, <<" ">>, st, end)
    IN  IF best # -1 THEN best
        ELSE IF idx # -1 THEN idx + 1 ELSE end

\* Lines 46-55: the value of best when the chunk is appended.
BestCut(t, sz, st) ==
    LET end == st + sz
        best == SepCut(t, sz, st)
        idx == Rfind(t, <<" ">>, st + (sz \div 2), end)
    IN  IF best # -1 THEN best
        ELSE IF idx # -1 THEN idx + 1 ELSE end

\* Lines 58-60 with the overlap subtracted twice.
NextStart_TwiceOverlap(best, ov) == IF best - 2 * ov < 0 THEN 0 ELSE best - 2 * ov

\* Lines 58-60: the next start.
NextStart(best, ov) == IF best - ov < 0 THEN 0 ELSE best - ov

\* Lines 34-38 without the early return.
ChunkEntry_NoEarlyReturn ==
    /\ cpc = "entry"
    /\ chunks' = <<>>
    /\ spans' = <<>>
    /\ start' = 0
    /\ seen' = {}
    /\ cpc' = "loop"
    /\ UNCHANGED <<text, size, overlap, serverVars, concVars, embVars>>

\* Lines 34-38: the early return for a text no longer than size, else start = 0.
ChunkEntry ==
    /\ cpc = "entry"
    /\ IF Len(text) <= size
       THEN /\ chunks' = <<text>>
            /\ spans' = << <<0, Len(text)>> >>
            /\ cpc' = "done"
            /\ UNCHANGED <<start, seen>>
       ELSE /\ chunks' = <<>>
            /\ spans' = <<>>
            /\ start' = 0
            /\ seen' = {}
            /\ cpc' = "loop"
    /\ UNCHANGED <<text, size, overlap, serverVars, concVars, embVars>>

\* Lines 39-60: one evaluation of the while loop at start st.  stop: the loop
\* ends here; cut: <<s, e>> of the chunk text[s:e] it appends, or <<>>;
\* next: the value of start afterwards.
WhileBody(t, sz, ov, st) ==
    IF ~(st < Len(t))
    THEN [stop |-> TRUE, cut |-> <<>>, next |-> st]
    ELSE IF st + sz >= Len(t)
    THEN [stop |-> TRUE, cut |-> <<st, Len(t)>>, next |-> st]
    ELSE LET best == BestCut(t, sz, st)
         IN  [stop |-> FALSE, cut |-> <<st, best>>, next |-> NextStart(best, ov)]

\* One iteration of the loop.  The loop has no state but start and the list
\* it appends to, so an iteration that brings start back to a value it had
\* at the head of an earlier iteration repeats forever: "diverged".
ChunkLoop ==
    /\ cpc = "loop"
    /\ LET w == WhileBody(text, size, overlap, start)
       IN  /\ chunks' = IF w.cut = <<>> THEN chunks
                        ELSE Append(chunks, Slice(text, w.cut[1], w.cut[2]))
           /\ spans' = IF w.cut = <<>> THEN spans ELSE Append(spans, w.cut)
           /\ start' = w.next
           /\ seen' = seen \cup {start}
           /\ cpc' = IF w.stop THEN "done"
                     ELSE IF w.next \in seen \cup {start} THEN "diverged"
                     ELSE "loop"
    /\ UNCHANGED <<text, size, overlap, serverVars, concVars, embVars>>

(***************************************************************************)
(* _chunk_text as a function: what a caller gets.  returns = FALSE: the    *)
(* call never returns (the loop came back to a start it had before).       *)
(***************************************************************************)
RECURSIVE ChunkFrom(_, _, _, _, _, _)
ChunkFrom(t, sz, ov, st, cs, sn) ==
    LET w == WhileBody(t, sz, ov, st)
        cs2 == IF w.cut = <<>> THEN cs ELSE Append(cs, Slice(t, w.cut[1], w.cut[2]))
    IN  IF w.stop THEN [returns |-> TRUE, chunks |-> cs2]
        ELSE IF w.next \in sn \cup {st} THEN [returns |-> FALSE, chunks |-> <<>>]
        ELSE ChunkFrom(t, sz, ov, w.next, cs2, sn \cup {st})

chunk_text(t, sz, ov) ==
    IF Len(t) <= sz THEN [returns |-> TRUE, chunks |-> <<t>>]
    ELSE ChunkFrom(t, sz, ov, 0, <<>>, {})

(***************************************************************************)
(* Content addresser (knowledge.py 65-68, memory.py 27-30).                *)
(***************************************************************************)
\* Every character that occurs in a hashed string.
CharTable ==
    <<"a", " ", ".", "\n", "!", "?", "s", "'", "/", "f", "~", "u", "x", ":",
      "0", "1", "2", "3", "4", "5", "6", "7", "8", "9", "g", "c">>

Ord(c) == CHOOSE i \in 1..Len(CharTable) : CharTable[i] = c

\* hashlib.sha256(s.encode()).hexdigest()[:16], idealised as collision-free:
\* a number that is a function of the characters of s and of nothing else,
\* different for different s.
RECURSIVE Sha16(_)
Sha16(s) ==
    IF s = <<>> THEN 1
    ELSE Sha16(SubSeq(s, 1, Len(s) - 1)) * (Len(CharTable) + 1) + Ord(s[Len(s)])

\* str(idx) for a chunk index
Digits == <<"0", "1", "2", "3", "4", "5", "6", "7", "8", "9">>

RECURSIVE IntStr(_)
IntStr(n) == IF n < 10 THEN <<Digits[n + 1]>> ELSE IntStr(n \div 10) \o <<Digits[(n % 10) + 1]>>

\* knowledge.py 65-68 with the time of the call in the hashed key.
make_chunk_id_WithTime(source, idx) ==
    <<"kb_", Sha16(source \o <<":">> \o IntStr(idx) \o <<":">> \o IntStr(now))>>

\* knowledge.py 65-68: "kb_" + sha256(f"{source}:{idx}")[:16]
make_chunk_id(source, idx) == <<"kb_", Sha16(source \o <<":">> \o IntStr(idx))>>

\* memory.py 27-30 with the time of the call in the id.
memory_id_WithTime(t) == <<"mem_", Sha16(t) + now>>

\* memory.py 27-30: "mem_" + sha256(text)[:16]
memory_id(t) == <<"mem_", Sha16(t)>>

(***************************************************************************)
(* The vector-storage engine, at the interface the stores call.  A         *)
(* collection is a function from document id to the document's fields.     *)
(***************************************************************************)
EmptyCol == [i \in {} |-> 0]

\* col.upsert(docs): overwrite by id; docs is a sequence of [id, fields].
ColUpsert(col, docs) ==
    LET ids == {docs[k].id : k \in 1..Len(docs)}
        lastOf(i) == SetMax({k \in 1..Len(docs) : docs[k].id = i})
    IN  [i \in DOMAIN col \cup ids |->
            IF i \in ids THEN docs[lastOf(i)].fields ELSE col[i]]

\* col.delete(id): the document is removed; the returned Status is ok when
\* a document with that id was stored and not ok (not found) otherwise.
ColDelete(col, id) ==
    [col |-> [i \in DOMAIN col \ {id} |-> col[i]], ok |-> id \in DOMAIN col]

\* The engine's reading of a filter string  <field> <op> '<literal>' : the
\* literal runs from the first quote to the next one, and the filter ends
\* there.  Anything else is not a filter the engine can evaluate.
Quotes(f) == {i \in 1..Len(f) : f[i] = "'"}

ParseFilter(f, head) ==
    LET q == Quotes(f)
        n == Len(head)
    IN  IF /\ Len(f) >= n + 1
           /\ SubSeq(f, 1, n) = head
           /\ Cardinality(q) = 2
           /\ q = {n, Len(f)}
        THEN [ok |-> TRUE, value |-> SubSeq(f, n + 1, Len(f) - 1)]
        ELSE [ok |-> FALSE, value |-> <<>>]

\* The documents a filter selects: those whose field equals the literal.
\* raised: the engine rejects the filter string.
ColMatch(col, f, head, field) ==
    LET p == ParseFilter(f, head)
    IN  [raised |-> ~p.ok,
         ids |-> IF p.ok THEN {i \in DOMAIN col : col[i][field] = p.value} ELSE {}]

\* col.delete_by_filter(f)
ColDeleteByFilter(col, f, head, field) ==
    LET m == ColMatch(col, f, head, field)
    IN  [raised |-> m.raised, col |-> [i \in DOMAIN col \ m.ids |-> col[i]]]

\* col.query(vectors, topk, filter): the number of results, min(topk,
\* candidates).
TopKSize(cands, topk) == IF Cardinality(cands) < topk THEN Cardinality(cands) ELSE topk

\* col.query(vectors, topk, filter): the possible results.  The candidates
\* are the documents the filter selects (all of them without a filter); the
\* engine returns the topk nearest, and which those are is the engine's
\* ranking: any min(topk, candidates) of them.
TopK(cands, topk) == {r \in SUBSET cands : Cardinality(r) = TopKSize(cands, topk)}

(***************************************************************************)
(* Config.embedding_dim and _Embedder.embed (config.py 65-71,              *)
(* embeddings.py 21-98): one _Embedder, its configuration, and the         *)
(* vectors its backend produces.                                           *)
(***************************************************************************)
\* config.py 71: the dimension of all-MiniLM-L6-v2
LocalDim == 384

Backends == {"local", "openai", "http"}

\* Values of ZVEC_MCP_OPENAI_DIM and ZVEC_MCP_HTTP_DIM (defaults 1536, 768).
OpenAIDims == {1536, 256}

HttpDims == {768, 384}

\* Lengths of the vectors the model served at http_url returns.
EndpointDims == {768, 384, 1024}

\* config.py 65-71
embedding_dim(c) ==
    IF c.embedding_backend = "openai" THEN c.openai_dimension
    ELSE IF c.embedding_backend = "http" THEN c.http_dimension
    ELSE LocalDim

\* embeddings.py 51-82: the backend object _load constructs.
Backend(c) ==
    IF c.embedding_backend = "openai" THEN "OpenAIDenseEmbedding"
    ELSE IF c.embedding_backend = "http" THEN "_HttpEmbedder"
    ELSE "DefaultLocalDenseEmbedding"

\* The length of the vector self._fn.embed returns: OpenAIDenseEmbedding
\* was constructed with dimension = openai_dimension, the local model is
\* all-MiniLM-L6-v2, and _HttpEmbedder (lines 29-37) returns the endpoint's
\* body["data"][0]["embedding"] as it is.
FnEmbedLen(fn, c, ep) ==
    IF fn = "OpenAIDenseEmbedding" THEN c.openai_dimension
    ELSE IF fn = "_HttpEmbedder" THEN ep
    ELSE LocalDim

\* embeddings.py 84-90: _load, then the backend's embed, then the
\* conversion to a list (which keeps the length).  ok = FALSE: the backend's
\* embed raises (a transport error).
embed(ok) ==
    /\ ecalls < MaxEmbeds
    /\ ecalls' = ecalls + 1
    /\ efn' = IF efn # "None" THEN efn ELSE Backend(ecfg)
    /\ eout' = IF ok THEN [outcome |-> "return", len |-> FnEmbedLen(efn', ecfg, endpoint)]
               ELSE [outcome |-> "raise", len |-> -1]
    /\ UNCHANGED <<ecfg, endpoint, chunkVars, serverVars, concVars>>

\* The state of the variables of this part when it is not used.
EmbIdle ==
    /\ ecfg = [embedding_backend |-> "local", openai_dimension |-> 1536,
               http_dimension |-> 768]
    /\ endpoint = 768
    /\ efn = "None"
    /\ eout = [outcome |-> "", len |-> -1]
    /\ ecalls = 0
(***************************************************************************)
(* Module globals and lazy initialisation (server.py 31-60,                *)
(* embeddings.py 18, 43-82, 101-106).                                      *)
(*   zvec_init  server._zvec_init                                          *)
(*   embedder   embeddings._embedder: 0 for None, else the _Embedder       *)
(*   kb, mem    server._kb, server._mem: 0 for None, else the _Embedder    *)
(*              the store was constructed with (its _emb)                  *)
(*   fns        fns[e] is _Embedder e's _fn: 0 for None, else the backend  *)
(*   backends   history: the number of backend objects constructed         *)
(***************************************************************************)
PyInit == [zvec_init |-> FALSE, embedder |-> 0, kb |-> 0, mem |-> 0,
           fns |-> <<>>, backends |-> 0]

\* embeddings.py 101-106
get_embedder(p) ==
    IF p.embedder = 0
    THEN [p EXCEPT !.fns = Append(@, 0), !.embedder = Len(p.fns) + 1]
    ELSE p

\* server.py 48-60
ensure_init(p) ==
    LET p1 == [p EXCEPT !.zvec_init = TRUE]
        g2 == get_embedder(p1)
        p2 == IF p1.kb = 0 THEN [g2 EXCEPT !.kb = g2.embedder] ELSE p1
        g3 == get_embedder(p2)
    IN  IF p2.mem = 0 THEN [g3 EXCEPT !.mem = g3.embedder] ELSE p2

\* embeddings.py 47-82 without the check of line 48: every _load constructs.
load_NoMemo(p, e) == [p EXCEPT !.fns[e] = p.backends + 1, !.backends = @ + 1]

\* embeddings.py 47-82: _Embedder e's _load
load(p, e) ==
    IF p.fns[e] # 0 THEN p
    ELSE [p EXCEPT !.fns[e] = p.backends + 1, !.backends = @ + 1]

(***************************************************************************)
(* Collection lifecycle (knowledge.py 102-118, memory.py 63-78).           *)
(*   col     the store's _col: "None" or "open"                            *)
(*   exists  the collection's path exists on disk                          *)
(*   docs    the documents of the collection                               *)
(*   opens   history: the number of zvec.open / create_and_open calls      *)
(*   made    history: "created" or "opened", how the handle was obtained   *)
(***************************************************************************)
\* A store whose collection has not been accessed in this process.
Unopened(e, d) == [col |-> "None", exists |-> e, docs |-> d, opens |-> 0, made |-> ""]

\* open() with create_and_open on both branches of line 106.
open_AlwaysCreate(k) ==
    [k EXCEPT !.col = "open", !.exists = TRUE, !.opens = @ + 1,
              !.made = "created", !.docs = EmptyCol]

\* open(): zvec.open the path if it exists, else create_and_open it from
\* the schema (an empty collection).
open(k) ==
    [k EXCEPT !.col = "open", !.exists = TRUE, !.opens = @ + 1,
              !.made = IF k.exists THEN "opened" ELSE "created",
              !.docs = IF k.exists THEN @ ELSE EmptyCol]

\* the col property
col(k) == IF k.col = "None" THEN open(k) ELSE k

(***************************************************************************)
(* The record of a tool call.                                              *)
(*   outcome  "return", "raise" (an exception leaves the tool function)    *)
(*            or "hang" (the call never returns)                           *)
(*   status   the response's "status", "" when it has none                 *)
(*   n        chunks_stored, count or doc_count; -1 when it has none       *)
(*   val      source, memory_id, result ids, message kind; <<>> when none  *)
(*   rep      the call before it was the same tool with the same           *)
(*            arguments, and returned                                      *)
(*   was      memory_remember: the category of the entry the call          *)
(*            overwrote; <<"None">> when it overwrote none                 *)
(***************************************************************************)
NoCall == [tool |-> "", args |-> <<>>, outcome |-> "", status |-> "", n |-> -1,
           val |-> <<>>, rep |-> FALSE, was |-> <<"None">>]

Call(tool, args, outcome, status, n, val) ==
    [tool |-> tool, args |-> args, outcome |-> outcome, status |-> status,
     n |-> n, val |-> val,
     rep |-> last.tool = tool /\ last.args = args /\ last.outcome = "return",
     was |-> <<"None">>]

(***************************************************************************)
(* Inputs of the knowledge tools.                                          *)
(***************************************************************************)
\* Source labels: a plain one and one with a quote character in it.
Sources == {<<"s">>, <<"s", "'">>}

\* Texts to ingest: one chunk, and more than MaxSize characters.
KbTexts == {<<"a">>, <<"a", " ", "a", "a", "a">>}

\* Path spellings and what Path(path).expanduser().resolve() makes of them,
\* with the working directory "/": nohome is a "~user" of no known user, for
\* which expanduser raises RuntimeError.
Paths == {<<"/", "f">>, <<"f">>, <<"/", "x">>, <<"/">>, <<"~", "u">>}

Resolve(path) ==
    IF path = <<"~", "u">> THEN [nohome |-> TRUE, p |-> <<>>]
    ELSE IF path = <<"f">> THEN [nohome |-> FALSE, p |-> <<"/", "f">>]
    ELSE [nohome |-> FALSE, p |-> path]

\* The regular files of the file system and their text.
is_file(p) == p = <<"/", "f">>

read_text(p) == <<"a", ".", "\n", "a", "a">>

Queries == {<<"a">>}

(***************************************************************************)
(* KnowledgeBase (knowledge.py 124-208).                                   *)
(***************************************************************************)
\* Lines 138-152 with the time of the ingest in the hashed key.
BuildDocs_TimeInId(cs, source, t) ==
    [i \in 1..Len(cs) |->
        [id |-> make_chunk_id(source \o IntStr(t), i - 1),
         fields |-> [source |-> source, chunk_idx |-> i - 1, text |-> cs[i],
                     created_at |-> t]]]

\* Lines 138-152: the documents of an ingest.
BuildDocs(cs, source, t) ==
    [i \in 1..Len(cs) |->
        [id |-> make_chunk_id(source, i - 1),
         fields |-> [source |-> source, chunk_idx |-> i - 1, text |-> cs[i],
                     created_at |-> t]]]

\* Line 198: the filter string of delete_source.
SourceFilterHead == <<"s", "o", "u", "r", "c", "e", " ", "=", "=", " ", "'">>

SourceFilter(source) == SourceFilterHead \o source \o <<"'">>

\* Lines 124-156 with the upsert inside the loop: the chunks embedded before
\* the failing one are stored.
Ingest_UpsertInLoop(tool, args, p1, t, source, respSource, embOk) ==
    LET ch == chunk_text(t, cfg.chunk_size, cfg.chunk_overlap)
        p2 == load(p1, p1.kb)
    IN  IF ~ch.returns
        THEN /\ py' = p1
             /\ hung' = TRUE
             /\ last' = Call(tool, args, "hang", "", -1, <<>>)
             /\ UNCHANGED kb
        ELSE IF ~embOk
        THEN /\ py' = p2
             /\ kb' = [col(kb) EXCEPT !.docs =
                         ColUpsert(@, BuildDocs(SubSeq(ch.chunks, 1, Len(ch.chunks) - 1),
                                                source, now))]
             /\ last' = Call(tool, args, "raise", "", -1, <<"embed">>)
             /\ UNCHANGED hung
        ELSE /\ py' = p2
             /\ kb' = [col(kb) EXCEPT !.docs = ColUpsert(@, BuildDocs(ch.chunks, source, now))]
             /\ last' = Call(tool, args, "return", "ok", Len(ch.chunks), respSource)
             /\ UNCHANGED hung

\* Lines 124-156 with the chunks of the source removed before the upsert.
Ingest_ReplaceSource(tool, args, p1, t, source, respSource, embOk) ==
    LET ch == chunk_text(t, cfg.chunk_size, cfg.chunk_overlap)
        p2 == load(p1, p1.kb)
    IN  IF ~ch.returns
        THEN /\ py' = p1
             /\ hung' = TRUE
             /\ last' = Call(tool, args, "hang", "", -1, <<>>)
             /\ UNCHANGED kb
        ELSE IF ~embOk
        THEN /\ py' = p2
             /\ last' = Call(tool, args, "raise", "", -1, <<"embed">>)
             /\ UNCHANGED <<kb, hung>>
        ELSE /\ py' = p2
             /\ kb' = [col(kb) EXCEPT !.docs =
                         ColUpsert([i \in {j \in DOMAIN @ : @[j].source # source} |-> @[i]],
                                   BuildDocs(ch.chunks, source, now))]
             /\ last' = Call(tool, args, "return", "ok", Len(ch.chunks), respSource)
             /\ UNCHANGED hung

\* Lines 124-156, called from a tool with _ensure_init done (globals p1):
\* chunk, embed every chunk, upsert.  respSource is the "source" of the
\* tool's response.  embOk = FALSE: self._emb.embed raises for one of the
\* chunks, which is before line 154 whichever chunk it is.
Ingest(tool, args, p1, t, source, respSource, embOk) ==
    LET ch == chunk_text(t, cfg.chunk_size, cfg.chunk_overlap)
        p2 == load(p1, p1.kb)
    IN  IF ~ch.returns
        THEN /\ py' = p1
             /\ hung' = TRUE
             /\ last' = Call(tool, args, "hang", "", -1, <<>>)
             /\ UNCHANGED kb
        ELSE IF ~embOk
        THEN /\ py' = p2
             /\ last' = Call(tool, args, "raise", "", -1, <<"embed">>)
             /\ UNCHANGED <<kb, hung>>
        ELSE /\ py' = p2
             /\ kb' = [col(kb) EXCEPT !.docs = ColUpsert(@, BuildDocs(ch.chunks, source, now))]
             /\ last' = Call(tool, args, "return", "ok", Len(ch.chunks), respSource)
             /\ UNCHANGED hung

\* server.py 68-83
knowledge_ingest(t, source, embOk) ==
    /\ ~hung
    /\ Ingest("knowledge_ingest", <<t, source>>, ensure_init(py), t, source, source, embOk)
    /\ UNCHANGED <<cfg, mem, now, chunkVars, concVars, embVars>>

\* server.py 86-101 with knowledge.py 158-164
knowledge_ingest_file(path, embOk) ==
    /\ ~hung
    /\ LET p1 == ensure_init(py)
           r == Resolve(path)
       IN  IF r.nohome
           THEN /\ py' = p1
                /\ last' = Call("knowledge_ingest_file", <<path>>, "raise", "", -1,
                                <<"RuntimeError">>)
                /\ UNCHANGED <<kb, hung>>
           ELSE IF ~is_file(r.p)
           THEN /\ py' = p1
                /\ last' = Call("knowledge_ingest_file", <<path>>, "return", "error", -1,
                                <<"File not found">>)
                /\ UNCHANGED <<kb, hung>>
           ELSE Ingest("knowledge_ingest_file", <<path>>, p1, read_text(r.p), r.p, path, embOk)
    /\ UNCHANGED <<cfg, mem, now, chunkVars, concVars, embVars>>

\* server.py 104-117 with knowledge.py 170-190
knowledge_search(query, topk, embOk) ==
    /\ ~hung
    /\ LET p2 == load(ensure_init(py), ensure_init(py).kb)
       IN  /\ py' = p2
           /\ IF ~embOk
              THEN /\ last' = Call("knowledge_search", <<query, topk>>, "raise", "", -1,
                                   <<"embed">>)
                   /\ UNCHANGED kb
              ELSE /\ kb' = col(kb)
                   /\ last' = Call("knowledge_search", <<query, topk>>, "return", "",
                                   TopKSize(DOMAIN kb.docs, topk), <<>>)
    /\ UNCHANGED <<cfg, mem, now, hung, chunkVars, concVars, embVars>>

\* knowledge.py 196-199: the collection after delete_source, and whether
\* delete_by_filter raised.
delete_source(docs, source) ==
    ColDeleteByFilter(docs, SourceFilter(source), SourceFilterHead, "source")

\* server.py 120-129
knowledge_delete_source(source) ==
    /\ ~hung
    /\ py' = ensure_init(py)
    /\ LET r == delete_source(kb.docs, source)
       IN  /\ kb' = [col(kb) EXCEPT !.docs = r.col]
           /\ last' = IF r.raised
                      THEN Call("knowledge_delete_source", <<source>>, "raise", "", -1,
                                <<"filter">>)
                      ELSE Call("knowledge_delete_source", <<source>>, "return", "ok", -1,
                                source)
    /\ UNCHANGED <<cfg, mem, now, hung, chunkVars, concVars, embVars>>

\* server.py 132-136 with knowledge.py 201-208
knowledge_stats ==
    /\ ~hung
    /\ py' = ensure_init(py)
    /\ kb' = col(kb)
    /\ last' = Call("knowledge_stats", <<>>, "return", "", Cardinality(DOMAIN kb.docs), <<>>)
    /\ UNCHANGED <<cfg, mem, now, hung, chunkVars, concVars, embVars>>

\* server.py 215-230
zvec_status ==
    /\ ~hung
    /\ py' = ensure_init(py)
    /\ kb' = col(kb)
    /\ mem' = col(mem)
    /\ last' = Call("zvec_status", <<>>, "return", "",
                    Cardinality(DOMAIN kb.docs) + Cardinality(DOMAIN mem.docs), <<>>)
    /\ UNCHANGED <<cfg, now, hung, chunkVars, concVars, embVars>>

\* time passes between tool calls
Tick ==
    /\ ~hung
    /\ now < MaxClock
    /\ now' = now + 1
    /\ UNCHANGED <<cfg, py, kb, mem, last, hung, chunkVars, concVars, embVars>>

\* The state of the variables a specification does not use.
ChunkIdle ==
    /\ text = <<>>
    /\ size = 1
    /\ overlap = 0
    /\ start = 0
    /\ chunks = <<>>
    /\ spans = <<>>
    /\ seen = {}
    /\ cpc = "idle"

ConcIdle ==
    /\ tpc = <<>>
    /\ tloc = <<>>

\* The configurations of the server: chunk_size 3 with every overlap
\* 0 <= chunk_overlap < chunk_size.
Configs == {[chunk_size |-> 3, chunk_overlap |-> ov] : ov \in 0..2}

\* A process that has just started: nothing initialised, no collection
\* opened; a collection of an earlier run may exist on disk.
ServerInit ==
    /\ cfg \in Configs
    /\ py = PyInit
    /\ kb \in {Unopened(e, EmptyCol) : e \in BOOLEAN}
    /\ mem \in {Unopened(e, EmptyCol) : e \in BOOLEAN}
    /\ now = 0
    /\ last = NoCall
    /\ hung = FALSE

KBNext ==
    \/ \E t \in KbTexts, s \in Sources, e \in BOOLEAN : knowledge_ingest(t, s, e)
    \/ \E p \in Paths, e \in BOOLEAN : knowledge_ingest_file(p, e)
    \/ \E q \in Queries, k \in 1..MaxTopK, e \in BOOLEAN : knowledge_search(q, k, e)
    \/ \E s \in Sources \cup {<<"/", "f">>, <<"f">>} : knowledge_delete_source(s)
    \/ knowledge_stats
    \/ zvec_status
    \/ Tick

\* The knowledge tools alone, on a fresh data directory: the knowledge
\* collection is created by the first call that accesses it, the memory
\* collection is never touched.
KBInit == ServerInit /\ ~kb.exists /\ ~mem.exists /\ ChunkIdle /\ ConcIdle /\ EmbIdle

SpecKB == KBInit /\ [][KBNext]_vars

(***************************************************************************)
(* Inputs of the memory tools.                                             *)
(***************************************************************************)
MemTexts == {<<"a">>, <<"s">>}

\* Category values: a plain one, the empty string and one with a quote
\* character in it.
Categories == {<<"g">>, <<>>, <<"c", "'">>}

\* Python's None, for the optional category of recall.
NoneVal == <<"None">>

\* Ids to forget: the id of each text, and one that is the id of no text.
ForgetIds == {memory_id(t) : t \in MemTexts} \cup {<<"mem_", 0>>}

(***************************************************************************)
(* MemoryStore (memory.py 84-160).                                         *)
(***************************************************************************)
\* Lines 118 and 146: the filter string of recall and forget_category.
CategoryFilterHead == <<"c", "a", "t", "e", "g", "o", "r", "y", " ", "=", " ", "'">>

CategoryFilter(category) == CategoryFilterHead \o category \o <<"'">>

\* Line 118: filt, None when category is None or empty (not truthy).
RecallFilter(category) ==
    IF category # NoneVal /\ category # <<>> THEN CategoryFilter(category) ELSE NoneVal

\* Lines 119-124: what the query of recall selects from; raised: the engine
\* rejects the filter string.
RecallCandidates(docs, category) ==
    LET filt == RecallFilter(category)
    IN  IF filt = NoneVal THEN [raised |-> FALSE, ids |-> DOMAIN docs]
        ELSE ColMatch(docs, filt, CategoryFilterHead, "category")

\* Lines 93-102 with the default category in place of the argument.
MemDoc_DefaultCategory(t, category, at) ==
    [id |-> memory_id(t),
     fields |-> [text |-> t, category |-> <<"g">>, created_at |-> at]]

\* Lines 93-102: the document of remember.
MemDoc(t, category, at) ==
    [id |-> memory_id(t),
     fields |-> [text |-> t, category |-> category, created_at |-> at]]

\* Lines 136-142 with the else branch of line 139 taken: ok is always True.
forget_AlwaysOk(docs, id) == [col |-> ColDelete(docs, id).col, ok |-> TRUE]

\* Lines 136-142: forget, the collection afterwards and the boolean returned
\* (status.ok() of the Status that delete returns).
forget(docs, id) == ColDelete(docs, id)

\* server.py 188: the status of memory_forget's response.
ForgetStatus(ok) == IF ok THEN "ok" ELSE "not_found"

\* server.py 144-159 with memory.py 84-104
memory_remember(t, category, embOk) ==
    /\ ~hung
    /\ LET p2 == load(ensure_init(py), ensure_init(py).mem)
       IN  /\ py' = p2
           /\ IF ~embOk
              THEN /\ last' = Call("memory_remember", <<t, category>>, "raise", "", -1,
                                   <<"embed">>)
                   /\ UNCHANGED mem
              ELSE /\ mem' = [col(mem) EXCEPT
                                !.docs = ColUpsert(@, <<MemDoc(t, category, now)>>)]
                   /\ last' = [Call("memory_remember", <<t, category>>, "return", "ok", -1,
                                    memory_id(t))
                                EXCEPT !.was = IF memory_id(t) \in DOMAIN mem.docs
                                               THEN mem.docs[memory_id(t)].category
                                               ELSE NoneVal]
    /\ UNCHANGED <<cfg, kb, now, hung, chunkVars, concVars, embVars>>

\* server.py 162-176 with memory.py 106-134
memory_recall(query, topk, category, embOk) ==
    /\ ~hung
    /\ LET p2 == load(ensure_init(py), ensure_init(py).mem)
           c == RecallCandidates(mem.docs, category)
       IN  /\ py' = p2
           /\ IF ~embOk
              THEN /\ last' = Call("memory_recall", <<query, topk, category>>, "raise", "",
                                   -1, <<"embed">>)
                   /\ UNCHANGED mem
              ELSE /\ mem' = col(mem)
                   /\ IF c.raised
                      THEN last' = Call("memory_recall", <<query, topk, category>>, "raise",
                                        "", -1, <<"filter">>)
                      ELSE \E res \in TopK(c.ids, topk) :
                             last' = Call("memory_recall", <<query, topk, category>>,
                                          "return", "", Cardinality(res), res)
    /\ UNCHANGED <<cfg, kb, now, hung, chunkVars, concVars, embVars>>

\* server.py 179-188
memory_forget(id) ==
    /\ ~hung
    /\ py' = ensure_init(py)
    /\ LET r == forget(mem.docs, id)
       IN  /\ mem' = [col(mem) EXCEPT !.docs = r.col]
           /\ last' = Call("memory_forget", <<id>>, "return", ForgetStatus(r.ok), -1, id)
    /\ UNCHANGED <<cfg, kb, now, hung, chunkVars, concVars, embVars>>

\* memory.py 144-147: the collection after forget_category, and whether
\* delete_by_filter raised.
forget_category(docs, category) ==
    ColDeleteByFilter(docs, CategoryFilter(category), CategoryFilterHead, "category")

\* server.py 191-200
memory_forget_category(category) ==
    /\ ~hung
    /\ py' = ensure_init(py)
    /\ LET r == forget_category(mem.docs, category)
       IN  /\ mem' = [col(mem) EXCEPT !.docs = r.col]
           /\ last' = IF r.raised
                      THEN Call("memory_forget_category", <<category>>, "raise", "", -1,
                                <<"filter">>)
                      ELSE Call("memory_forget_category", <<category>>, "return", "ok", -1,
                                category)
    /\ UNCHANGED <<cfg, kb, now, hung, chunkVars, concVars, embVars>>

\* server.py 203-207 with memory.py 153-160
memory_stats ==
    /\ ~hung
    /\ py' = ensure_init(py)
    /\ mem' = col(mem)
    /\ last' = Call("memory_stats", <<>>, "return", "", Cardinality(DOMAIN mem.docs), <<>>)
    /\ UNCHANGED <<cfg, kb, now, hung, chunkVars, concVars, embVars>>

MemNext ==
    \/ \E t \in MemTexts, c \in Categories, e \in BOOLEAN : memory_remember(t, c, e)
    \/ \E q \in Queries, k \in 1..MaxTopK, c \in Categories \cup {NoneVal}, e \in BOOLEAN :
            memory_recall(q, k, c, e)
    \/ \E i \in ForgetIds : memory_forget(i)
    \/ \E c \in Categories : memory_forget_category(c)
    \/ memory_stats
    \/ zvec_status
    \/ Tick

\* The memory tools alone: the knowledge collection is never touched.
MemInit == ServerInit /\ ~kb.exists /\ ChunkIdle /\ ConcIdle /\ EmbIdle

SpecMem == MemInit /\ [][MemNext]_vars

(***************************************************************************)
(* First tool calls made by concurrent callers.  Each caller runs          *)
(* knowledge_search: _ensure_init (server.py 48-60, with get_embedder,     *)
(* embeddings.py 101-106, inlined), then KnowledgeBase.search's            *)
(* self._emb.embed (embeddings.py 84-90 with _load, 47-82).  The code      *)
(* takes no lock, so callers interleave between any two reads or writes    *)
(* of a global or of an attribute.                                         *)
(*   tpc[t]   the caller's position                                        *)
(*   tloc[t]  emb: the local emb of _ensure_init; store: the _Embedder of  *)
(*            the KnowledgeBase _ensure_init returned; used: the backend   *)
(*            object whose embed was called                                *)
(***************************************************************************)
Callers == 1..NCallers

Goto(t, pc) == tpc' = [tpc EXCEPT ![t] = pc]

ConcFrame == UNCHANGED <<cfg, kb, mem, now, last, hung, chunkVars, embVars>>

\* server.py 51: if not _zvec_init
InitCheck(t) ==
    /\ tpc[t] = "init_check"
    /\ Goto(t, IF py.zvec_init THEN "kb_check" ELSE "init_do")
    /\ UNCHANGED <<py, tloc>>
    /\ ConcFrame

\* server.py 52-53: zvec.init(); _zvec_init = True
InitDo(t) ==
    /\ tpc[t] = "init_do"
    /\ py' = [py EXCEPT !.zvec_init = TRUE]
    /\ Goto(t, "kb_check")
    /\ UNCHANGED tloc
    /\ ConcFrame

\* server.py 54 and 57: if _kb is None / if _mem is None
StoreCheck(t, which) ==
    /\ tpc[t] = which \o "_check"
    /\ Goto(t, IF py[which] = 0 THEN which \o "_get_check"
               ELSE IF which = "kb" THEN "mem_check" ELSE "ret")
    /\ UNCHANGED <<py, tloc>>
    /\ ConcFrame

\* embeddings.py 104: if _embedder is None
GetCheck(t, which) ==
    /\ tpc[t] = which \o "_get_check"
    /\ Goto(t, IF py.embedder = 0 THEN which \o "_get_make" ELSE which \o "_get_ret")
    /\ UNCHANGED <<py, tloc>>
    /\ ConcFrame

\* embeddings.py 105: _embedder = _Embedder(cfg)
GetMake(t, which) ==
    /\ tpc[t] = which \o "_get_make"
    /\ py' = [py EXCEPT !.fns = Append(@, 0), !.embedder = Len(py.fns) + 1]
    /\ Goto(t, which \o "_get_ret")
    /\ UNCHANGED tloc
    /\ ConcFrame

\* embeddings.py 106 and server.py 55, 58: emb = get_embedder(cfg)
GetRet(t, which) ==
    /\ tpc[t] = which \o "_get_ret"
    /\ tloc' = [tloc EXCEPT ![t].emb = py.embedder]
    /\ Goto(t, which \o "_set")
    /\ UNCHANGED py
    /\ ConcFrame

\* server.py 56 and 59: _kb = KnowledgeBase(cfg, emb) / _mem = MemoryStore(cfg, emb)
StoreSet(t, which) ==
    /\ tpc[t] = which \o "_set"
    /\ py' = [py EXCEPT ![which] = tloc[t].emb]
    /\ Goto(t, IF which = "kb" THEN "mem_check" ELSE "ret")
    /\ UNCHANGED tloc
    /\ ConcFrame

\* server.py 60 and 115: kb, _ = _ensure_init()
EnsureRet(t) ==
    /\ tpc[t] = "ret"
    /\ tloc' = [tloc EXCEPT ![t].store = py.kb]
    /\ Goto(t, "load_check")
    /\ UNCHANGED py
    /\ ConcFrame

\* embeddings.py 48: if self._fn is not None: return
LoadCheck(t) ==
    /\ tpc[t] = "load_check"
    /\ Goto(t, IF py.fns[tloc[t].store] # 0 THEN "embed" ELSE "load_make")
    /\ UNCHANGED <<py, tloc>>
    /\ ConcFrame

\* embeddings.py 51-82: self._fn = <the backend of the configuration>
LoadMake(t) ==
    /\ tpc[t] = "load_make"
    /\ py' = [py EXCEPT !.fns[tloc[t].store] = py.backends + 1, !.backends = @ + 1]
    /\ Goto(t, "embed")
    /\ UNCHANGED tloc
    /\ ConcFrame

\* embeddings.py 87: vec = self._fn.embed(text)
Embed(t) ==
    /\ tpc[t] = "embed"
    /\ tloc' = [tloc EXCEPT ![t].used = py.fns[tloc[t].store]]
    /\ Goto(t, "done")
    /\ UNCHANGED py
    /\ ConcFrame

ConcInit ==
    /\ ServerInit
    /\ ~kb.exists
    /\ ~mem.exists
    /\ cfg.chunk_overlap = 0
    /\ ChunkIdle
    /\ EmbIdle
    /\ tpc = [t \in Callers |-> "init_check"]
    /\ tloc = [t \in Callers |-> [emb |-> 0, store |-> 0, used |-> 0]]

ConcNext ==
    \E t \in Callers :
        \/ InitCheck(t)
        \/ InitDo(t)
        \/ \E which \in {"kb", "mem"} :
            \/ StoreCheck(t, which)
            \/ GetCheck(t, which)
            \/ GetMake(t, which)
            \/ GetRet(t, which)
            \/ StoreSet(t, which)
        \/ EnsureRet(t)
        \/ LoadCheck(t)
        \/ LoadMake(t)
        \/ Embed(t)

SpecConc == ConcInit /\ [][ConcNext]_vars

(***************************************************************************)
(* First access to a collection by concurrent callers.  The module globals *)
(* are initialised (an earlier tool call ran _ensure_init), so there is    *)
(* one KnowledgeBase and one MemoryStore; each caller runs knowledge_stats *)
(* or memory_stats (server.py 133-136, 204-207): stats() reads self.col    *)
(* (knowledge.py 113-118, memory.py 73-78), which calls open()             *)
(* (knowledge.py 102-111, memory.py 63-71) when _col is None.  The code    *)
(* takes no lock, so callers interleave between the read of _col, the      *)
(* existence check and the engine call.                                    *)
(*   tpc[t]   the caller's position                                        *)
(*   tloc[t]  which: the store of the tool; call: the engine call the      *)
(*            caller issued in open(); outcome: "return" or "raise"        *)
(***************************************************************************)
StoreOf(t) == IF tloc[t].which = "kb" THEN kb ELSE mem

SetStore(t, k) ==
    IF tloc[t].which = "kb" THEN kb' = k /\ UNCHANGED mem
    ELSE mem' = k /\ UNCHANGED kb

OpenFrame == UNCHANGED <<cfg, py, now, last, hung, chunkVars, embVars>>

\* create_and_open(path, schema) of the engine.  On a path that does not
\* exist it creates an empty collection.  On a path that exists the engine
\* either refuses (ok = FALSE: the call raises and _col is not assigned)
\* or hands out a handle on a collection made from the schema.
CreateAndOpen(k, ok) ==
    IF ok \/ ~k.exists
    THEN [k EXCEPT !.col = "open", !.exists = TRUE, !.opens = @ + 1,
                   !.made = "created", !.docs = EmptyCol]
    ELSE [k EXCEPT !.opens = @ + 1]

\* server.py 135 / 206: kb, _ = _ensure_init() / _, mem = _ensure_init(),
\* every global already set; then kb.stats() / mem.stats()
StatsCall(t, which) ==
    /\ tpc[t] = "call"
    /\ py.zvec_init /\ py.kb # 0 /\ py.mem # 0
    /\ tloc' = [tloc EXCEPT ![t].which = which]
    /\ Goto(t, "col_is_none")
    /\ UNCHANGED <<kb, mem>>
    /\ OpenFrame

\* knowledge.py 115 / memory.py 75: if self._col is None
ColIsNone(t) ==
    /\ tpc[t] = "col_is_none"
    /\ Goto(t, IF StoreOf(t).col = "None" THEN "path_exists" ELSE "stats")
    /\ UNCHANGED <<kb, mem, tloc>>
    /\ OpenFrame

\* knowledge.py 104-106 / memory.py 64-66: ensure_dirs(); if path.exists()
PathExists(t) ==
    /\ tpc[t] = "path_exists"
    /\ Goto(t, IF StoreOf(t).exists THEN "zvec_open" ELSE "zvec_create")
    /\ UNCHANGED <<kb, mem, tloc>>
    /\ OpenFrame

\* knowledge.py 107 / memory.py 67: self._col = zvec.open(path)
ZvecOpen(t) ==
    /\ tpc[t] = "zvec_open"
    /\ SetStore(t, [StoreOf(t) EXCEPT !.col = "open", !.opens = @ + 1, !.made = "opened"])
    /\ tloc' = [tloc EXCEPT ![t].call = "open"]
    /\ Goto(t, "stats")
    /\ OpenFrame

\* knowledge.py 110 / memory.py 70: self._col = zvec.create_and_open(path, schema)
ZvecCreateAndOpen(t, ok) ==
    /\ tpc[t] = "zvec_create"
    /\ SetStore(t, CreateAndOpen(StoreOf(t), ok))
    /\ IF ok \/ ~StoreOf(t).exists
       THEN /\ tloc' = [tloc EXCEPT ![t].call = "create_and_open"]
            /\ Goto(t, "stats")
       ELSE /\ tloc' = [tloc EXCEPT ![t].call = "create_and_open", ![t].outcome = "raise"]
            /\ Goto(t, "done")
    /\ OpenFrame

\* knowledge.py 117-118, 203 / memory.py 77-78, 154: return self._col; .stats
ColStats(t) ==
    /\ tpc[t] = "stats"
    /\ tloc' = [tloc EXCEPT ![t].outcome = "return"]
    /\ Goto(t, "done")
    /\ UNCHANGED <<kb, mem>>
    /\ OpenFrame

\* Both stores constructed, neither collection accessed in this process;
\* a collection of an earlier run may exist on disk.
OpenInit ==
    /\ cfg = [chunk_size |-> 3, chunk_overlap |-> 0]
    /\ py = ensure_init(PyInit)
    /\ kb \in {Unopened(e, EmptyCol) : e \in BOOLEAN}
    /\ mem \in {Unopened(e, EmptyCol) : e \in BOOLEAN}
    /\ now = 0
    /\ last = NoCall
    /\ hung = FALSE
    /\ ChunkIdle
    /\ EmbIdle
    /\ tpc = [t \in Callers |-> "call"]
    /\ tloc = [t \in Callers |-> [which |-> "", call |-> "", outcome |-> ""]]

OpenNext ==
    \E t \in Callers :
        \/ \E which \in {"kb", "mem"} : StatsCall(t, which)
        \/ ColIsNone(t)
        \/ PathExists(t)
        \/ ZvecOpen(t)
        \/ \E ok \in BOOLEAN : ZvecCreateAndOpen(t, ok)
        \/ ColStats(t)

SpecOpen == OpenInit /\ [][OpenNext]_vars

(***************************************************************************)
(* One call of _chunk_text on any text and any valid budget.               *)
(***************************************************************************)
ChunkInit ==
    /\ text \in Texts
    /\ size \in 1..MaxSize
    /\ overlap \in 0..(size - 1)
    /\ start = 0
    /\ chunks = <<>>
    /\ spans = <<>>
    /\ seen = {}
    /\ cpc = "entry"
    /\ cfg = [chunk_size |-> size, chunk_overlap |-> overlap]
    /\ py = PyInit
    /\ kb = Unopened(FALSE, EmptyCol)
    /\ mem = Unopened(FALSE, EmptyCol)
    /\ now = 0
    /\ last = NoCall
    /\ hung = FALSE
    /\ ConcIdle
    /\ EmbIdle

ChunkNext == ChunkEntry \/ ChunkLoop

SpecChunk == ChunkInit /\ [][ChunkNext]_vars


(***************************************************************************)
(* One _Embedder under any configuration, embedding one text after         *)
(* another.                                                                *)
(***************************************************************************)
EmbedInit ==
    /\ ecfg \in [embedding_backend : Backends, openai_dimension : OpenAIDims,
                 http_dimension : HttpDims]
    /\ endpoint \in EndpointDims
    /\ efn = "None"
    /\ eout = [outcome |-> "", len |-> -1]
    /\ ecalls = 0
    /\ cfg \in Configs
    /\ py = PyInit
    /\ kb = Unopened(FALSE, EmptyCol)
    /\ mem = Unopened(FALSE, EmptyCol)
    /\ now = 0
    /\ last = NoCall
    /\ hung = FALSE
    /\ ChunkIdle
    /\ ConcIdle

EmbedNext == \E ok \in BOOLEAN : embed(ok)

SpecEmbed == EmbedInit /\ [][EmbedNext]_vars

(***************************************************************************)
(* One call of _chunk_text on a longer text, with windows whose search     *)
(* range holds more than one marker.                                       *)
(***************************************************************************)
CutInit ==
    /\ text \in CutTexts
    /\ size \in 1..MaxCutSize
    /\ overlap \in 0..(size - 1)
    /\ start = 0
    /\ chunks = <<>>
    /\ spans = <<>>
    /\ seen = {}
    /\ cpc = "entry"
    /\ cfg = [chunk_size |-> size, chunk_overlap |-> overlap]
    /\ py = PyInit
    /\ kb = Unopened(FALSE, EmptyCol)
    /\ mem = Unopened(FALSE, EmptyCol)
    /\ now = 0
    /\ last = NoCall
    /\ hung = FALSE
    /\ ConcIdle
    /\ EmbIdle

SpecCut == CutInit /\ [][ChunkNext]_vars
(***************************************************************************)
(* Every tool, called one after another.                                   *)
(***************************************************************************)
Init == ServerInit /\ ChunkIdle /\ ConcIdle /\ EmbIdle

Next == KBNext \/ MemNext

Spec == Init /\ [][Next]_vars


(***************************************************************************)
(* Every tool, called one after another, with one or two arguments each,   *)
(* in a process whose collections may hold documents of an earlier run.    *)
(***************************************************************************)
\* Documents an earlier run of the server left on disk.
PriorKb == ColUpsert(EmptyCol, BuildDocs(<<<<"a">>>>, <<"s">>, 0))

PriorMem == ColUpsert(EmptyCol, <<MemDoc(<<"a">>, <<"g">>, 0)>>)

ToolsInit ==
    /\ now = 0
    /\ cfg = [chunk_size |-> 3, chunk_overlap |-> 0]
    /\ py = PyInit
    /\ kb \in {Unopened(FALSE, EmptyCol), Unopened(TRUE, EmptyCol), Unopened(TRUE, PriorKb)}
    /\ mem \in {Unopened(FALSE, EmptyCol), Unopened(TRUE, EmptyCol), Unopened(TRUE, PriorMem)}
    /\ last = NoCall
    /\ hung = FALSE
    /\ ChunkIdle
    /\ ConcIdle
    /\ EmbIdle

ToolsNext ==
    \/ \E t \in KbTexts, e \in BOOLEAN : knowledge_ingest(t, <<"s">>, e)
    \/ \E p \in {<<"/", "f">>, <<"/", "x">>}, e \in BOOLEAN : knowledge_ingest_file(p, e)
    \/ \E e \in BOOLEAN : knowledge_search(<<"a">>, 1, e)
    \/ knowledge_delete_source(<<"s">>)
    \/ knowledge_stats
    \/ \E c \in {<<"g">>, <<>>}, e \in BOOLEAN : memory_remember(<<"a">>, c, e)
    \/ \E e \in BOOLEAN : memory_recall(<<"a">>, 1, NoneVal, e)
    \/ memory_forget(memory_id(<<"a">>))
    \/ memory_forget_category(<<"g">>)
    \/ memory_stats
    \/ zvec_status
    \/ Tick

SpecTools == ToolsInit /\ [][ToolsNext]_vars
(***************************************************************************)
(* Claims about _chunk_text, checked under SpecChunk.                      *)
(***************************************************************************)
\* C1: _chunk_text terminates for every text and every budget with
\* size >= 1 and 0 <= overlap < size: at the head of every iteration start is
\* greater than at the head of every earlier one, and the loop never comes
\* back to a start it had before.
C1_StartAdvancesUntilTail ==
    /\ cpc # "diverged"
    /\ cpc = "loop" => \A s \in seen : s < start

\* Concatenating the chunks while dropping, from each chunk after the first,
\* the characters it shares with its predecessor.
RECURSIVE Rebuild(_, _)
Rebuild(cs, sp) ==
    IF Len(cs) = 0 THEN <<>>
    ELSE IF Len(cs) = 1 THEN cs[1]
    ELSE LET n == Len(cs)
             shared == sp[n - 1][2] - sp[n][1]
         IN  Rebuild(SubSeq(cs, 1, n - 1), SubSeq(sp, 1, n - 1))
                 \o SubSeq(cs[n], shared + 1, Len(cs[n]))

Covers ==
    /\ Len(chunks) >= 1
    /\ Len(spans) = Len(chunks)
    /\ spans[1][1] = 0
    /\ spans[Len(spans)][2] = Len(text)
    /\ \A k \in 1..Len(chunks) : chunks[k] = Slice(text, spans[k][1], spans[k][2])
    /\ \A k \in 1..(Len(spans) - 1) : spans[k + 1][1] <= spans[k][2]
    /\ Rebuild(chunks, spans) = text

\* C2: for every text and every (size, overlap) with overlap < size the call
\* returns, with at least one chunk, the first starting at 0, every chunk
\* starting no later than its predecessor ends, the last ending at len(text),
\* and the chunks minus their overlaps concatenating to the text.
C2_ReturnsCoveringChunks ==
    /\ cpc # "diverged"
    /\ cpc = "done" => Covers

\* The part of C2 that the code keeps: every call that returns returns a
\* covering chunk list.
ReturnedChunksCover == cpc = "done" => Covers

\* C3: a text no longer than size, the empty text included, comes back as
\* exactly one chunk equal to the text, whatever the overlap.
C3_ShortTextOneChunk ==
    (cpc = "done" /\ Len(text) <= size) => chunks = <<text>>

C3_Witness ==
    /\ cpc = "done"
    /\ text = <<>>
    /\ overlap > 0
    /\ chunks = << <<>> >>

(***************************************************************************)
(* Claims about the knowledge tools, checked under SpecKB.                 *)
(***************************************************************************)
\* A collection without the created_at of its documents.
KbView(docs) ==
    [i \in DOMAIN docs |->
        [source |-> docs[i].source, chunk_idx |-> docs[i].chunk_idx, text |-> docs[i].text]]

SourceDocs(docs, source) == {i \in DOMAIN docs : docs[i].source = source}

\* The last call was knowledge_ingest, returned, and repeated the call
\* before it: the same text under the same source.
RepeatIngest ==
    /\ last.tool = "knowledge_ingest"
    /\ last.outcome = "return"
    /\ last.rep

\* C4 as stated: the second of two ingests of the same (source, text) leaves
\* ids, source/chunk_idx/text of every document and doc_count as the first
\* left them, and the number of documents of that source equals the chunk
\* count of one ingestion.
C4_SecondIngestSameAndCountIsChunks ==
    [][RepeatIngest' =>
        /\ KbView(kb'.docs) = KbView(kb.docs)
        /\ Cardinality(SourceDocs(kb'.docs, last'.args[2])) = last'.n]_vars

\* C4 amended: the second ingest leaves ids, source/chunk_idx/text and
\* doc_count as the first left them; the source has exactly one document for
\* each chunk index below the chunk count n of one ingestion, and its
\* document count equals n unless documents with chunk_idx >= n of an
\* earlier, longer ingestion of that source are stored.
C4_SecondIngestSame ==
    [][RepeatIngest' =>
        LET s == last'.args[2]
            n == last'.n
            of == SourceDocs(kb'.docs, s)
        IN  /\ KbView(kb'.docs) = KbView(kb.docs)
            /\ Cardinality(DOMAIN kb'.docs) = Cardinality(DOMAIN kb.docs)
            /\ Cardinality({i \in of : kb'.docs[i].chunk_idx < n}) = n
            /\ 0..(n - 1) \subseteq {kb'.docs[i].chunk_idx : i \in of}
            /\ (\A i \in of : kb'.docs[i].chunk_idx < n) => Cardinality(of) = n]_vars

\* A text of several chunks ingested twice in a row, the second time later
\* than the first, with another source stored beside it.
C4_Witness ==
    /\ RepeatIngest
    /\ last.n >= 2
    /\ now > 0
    /\ Cardinality(SourceDocs(kb.docs, last.args[2])) = last.n
    /\ \A i \in SourceDocs(kb.docs, last.args[2]) : kb.docs[i].created_at = now
    /\ Cardinality(DOMAIN kb.docs) > last.n

\* C7: delete_source(source) removes every stored chunk whose source equals
\* the given string and no other chunk, for every source string.
C7_DeleteSourceExactly ==
    [][(last'.tool = "knowledge_delete_source" /\ last' # last) =>
        LET s == last'.args[1]
        IN  kb'.docs = [i \in DOMAIN kb.docs \ SourceDocs(kb.docs, s) |-> kb.docs[i]]]_vars

\* What the code keeps of C7: for a source without a quote character.
DeleteSourceExactlyUnquoted ==
    [][(last'.tool = "knowledge_delete_source" /\ last' # last
            /\ \A k \in 1..Len(last'.args[1]) : last'.args[1][k] # "'") =>
        LET s == last'.args[1]
        IN  /\ last'.outcome = "return"
            /\ kb'.docs = [i \in DOMAIN kb.docs \ SourceDocs(kb.docs, s) |-> kb.docs[i]]]_vars

\* The path does not resolve to an existing regular file.
NoSuchFile(path) == Resolve(path).nohome \/ ~is_file(Resolve(path).p)

\* C9: knowledge_ingest_file with a path that does not resolve to an
\* existing regular file returns {status: "error", message}, raises nothing,
\* and leaves the documents of the knowledge collection unchanged.
C9_MissingFileIsStructuredError ==
    [][(last'.tool = "knowledge_ingest_file" /\ last' # last /\ NoSuchFile(last'.args[1])) =>
        /\ last'.outcome = "return"
        /\ last'.status = "error"
        /\ kb'.docs = kb.docs]_vars

\* What the code keeps of C9: for a path that expanduser and resolve accept.
MissingFileIsStructuredErrorResolved ==
    [][(last'.tool = "knowledge_ingest_file" /\ last' # last
            /\ ~Resolve(last'.args[1]).nohome /\ ~is_file(Resolve(last'.args[1]).p)) =>
        /\ last'.outcome = "return"
        /\ last'.status = "error"
        /\ kb'.docs = kb.docs]_vars

(***************************************************************************)
(* Claims about the memory tools, checked under SpecMem.                   *)
(***************************************************************************)
\* C5: every returning remember(text) leaves exactly one stored entry with
\* that text, stored under the id the call returns; when an entry with the
\* text was stored before the call, the call returns that entry's id and
\* doc_count is what it was.
C5_RememberStoresOnce ==
    [][(last'.tool = "memory_remember" /\ last'.outcome = "return") =>
        LET t == last'.args[1]
        IN  /\ {i \in DOMAIN mem'.docs : mem'.docs[i].text = t} = {last'.val}
            /\ \A i \in DOMAIN mem.docs :
                  mem.docs[i].text = t =>
                    /\ last'.val = i
                    /\ Cardinality(DOMAIN mem'.docs) = Cardinality(DOMAIN mem.docs)]_vars

\* The same text remembered again, later, with the other text stored too.
C5_Witness ==
    /\ last.tool = "memory_remember"
    /\ last.outcome = "return"
    /\ last.rep
    /\ now > 0
    /\ Cardinality(DOMAIN mem.docs) = 2
    /\ mem.docs[last.val].created_at = now

\* C6: recall(query, category=X) returns no entry whose stored category
\* differs from X, for every string X.
C6_RecallOnlyCategory ==
    (last.tool = "memory_recall" /\ last.outcome = "return" /\ last.args[3] # NoneVal) =>
        \A i \in last.val : mem.docs[i].category = last.args[3]

\* What the code keeps of C6: for a category that is not the empty string.
RecallOnlyNonEmptyCategory ==
    (last.tool = "memory_recall" /\ last.outcome = "return"
        /\ last.args[3] # NoneVal /\ last.args[3] # <<>>) =>
        \A i \in last.val : mem.docs[i].category = last.args[3]

ForgetNotFoundReached ==
    /\ last.tool = "memory_forget"
    /\ last.status = "not_found"
    /\ last.args[1] = <<"mem_", 0>>
    /\ Cardinality(DOMAIN mem.docs) = 2

(***************************************************************************)
(* Claims about concurrent first use, checked under SpecConc.              *)
(***************************************************************************)
\* C10: under concurrent first use at most one _Embedder is created by
\* get_embedder, at most one backend object is constructed by _load, and
\* every caller embeds with the same backend object.
C10_SingleInitialisation ==
    /\ Len(py.fns) <= 1
    /\ py.backends <= 1
    /\ \A t, u \in Callers :
          (tpc[t] = "done" /\ tpc[u] = "done") => tloc[t].used = tloc[u].used


(***************************************************************************)
(* Claims about the embedding dispatcher.                                  *)
(***************************************************************************)
\* C11: embed never returns a vector whose length differs from the
\* configured embedding_dim: a backend that produces another length makes
\* the embed call fail instead of returning.
C11_EmbedLengthIsDim ==
    eout.outcome = "return" => eout.len = embedding_dim(ecfg)

\* What the code does guarantee: the local and the OpenAI backend return
\* vectors of the configured length.
EmbedLengthIsDimUnlessHttp ==
    (eout.outcome = "return" /\ ecfg.embedding_backend # "http")
        => eout.len = embedding_dim(ecfg)

(***************************************************************************)
(* Claims about lazy initialisation over sequences of tool calls.          *)
(***************************************************************************)
\* The tools that embed text.
EmbedTools ==
    {"knowledge_ingest", "knowledge_ingest_file", "knowledge_search",
     "memory_remember", "memory_recall"}

\* C12: in a sequential run the backend is constructed at most once, only
\* by a call of a tool that embeds text, and never replaced afterwards: the
\* one _Embedder keeps the backend the first embed built, and both stores
\* hold that _Embedder.
C12_BackendBuiltOnceOnFirstEmbed ==
    [][ /\ py'.backends <= 1
        /\ py'.backends # py.backends => (py.backends = 0 /\ last'.tool \in EmbedTools)
        /\ Len(py'.fns) <= 1
        /\ \A e \in DOMAIN py.fns :
                py.fns[e] # 0 => (e \in DOMAIN py'.fns /\ py'.fns[e] = py.fns[e])
        /\ (py'.kb # 0 /\ py'.mem # 0) => py'.kb = py'.mem
      ]_vars

\* Two embedding calls after one another, and one backend.
C12_Witness ==
    /\ py.backends = 1
    /\ last.tool = "memory_recall"
    /\ last.rep
    /\ kb.docs # EmptyCol
    /\ kb.made = "created"

\* The call recorded in c accessed the knowledge collection.
KbAccessed(c) ==
    \/ c.tool \in {"knowledge_stats", "zvec_status", "knowledge_delete_source"}
    \/ /\ c.tool \in {"knowledge_ingest", "knowledge_ingest_file", "knowledge_search"}
       /\ c.outcome = "return"
       /\ c.status # "error"

\* The call recorded in c accessed the memory collection.
MemAccessed(c) ==
    \/ c.tool \in {"memory_stats", "zvec_status", "memory_forget", "memory_forget_category"}
    \/ /\ c.tool \in {"memory_remember", "memory_recall"}
       /\ c.outcome = "return"

ReadOnlyTools ==
    {"knowledge_stats", "knowledge_search", "memory_stats", "memory_recall", "zvec_status"}

\* One tool call, for the store that is k before and k2 after it.
HandleStep(k, k2, accessed, tool) ==
    /\ k.col = "open" => (k2.col = "open" /\ k2.opens = k.opens /\ k2.made = k.made)
    /\ k.col = "None" => (k2.col = "open" <=> accessed)
    /\ (k.col = "None" /\ k2.col = "open") =>
            /\ k2.opens = 1
            /\ k2.exists
            /\ k2.made = (IF k.exists THEN "opened" ELSE "created")
            /\ tool \in ReadOnlyTools => k2.docs = k.docs
    /\ k2.opens <= 1

\* C13: a store's handle goes from Unopened to Open on the first call that
\* accesses the collection and stays Open; at that step the collection is
\* created if and only if its path did not exist and opened as it is
\* otherwise; open/create is issued at most once per store.
C13_HandleOpensOnce ==
    [][ now' = now =>
            /\ HandleStep(kb, kb', KbAccessed(last'), last'.tool)
            /\ HandleStep(mem, mem', MemAccessed(last'), last'.tool)
      ]_vars

\* One store created, the other opened with the documents of an earlier run.
C13_Witness ==
    /\ kb.col = "open"
    /\ kb.made = "created"
    /\ mem.col = "open"
    /\ mem.made = "opened"
    /\ mem.docs = PriorMem
    /\ last.tool = "memory_recall"

(***************************************************************************)
(* More claims about the memory store.                                     *)
(***************************************************************************)
\* C14: remember overwrites: after a remember(t, category = c) that
\* returns, the entry with id memory_id(t) has text t, category c and the
\* time of the call, whatever category it had before; a duplicate call
\* leaves the entry's text and id as they were, adds no entry, and no
\* other entry changes.
C14_RememberOverwrites ==
    [][ (now' = now /\ last'.tool = "memory_remember" /\ last'.outcome = "return") =>
            LET t == last'.args[1]
                c == last'.args[2]
                id == memory_id(t)
            IN  /\ last'.val = id
                /\ DOMAIN mem'.docs = DOMAIN mem.docs \cup {id}
                /\ mem'.docs[id] = [text |-> t, category |-> c, created_at |-> now]
                /\ id \in DOMAIN mem.docs => mem'.docs[id].text = mem.docs[id].text
                /\ \A j \in DOMAIN mem.docs \ {id} : mem'.docs[j] = mem.docs[j]
      ]_vars

\* A remember has just replaced the category of a stored entry by another
\* one, at a later time.
C14_Witness ==
    /\ last.tool = "memory_remember"
    /\ last.outcome = "return"
    /\ last.was # NoneVal
    /\ last.was # last.args[2]
    /\ mem.docs[last.val].category = last.args[2]
    /\ mem.docs[last.val].created_at = 1
    /\ Cardinality(DOMAIN mem.docs) = 2

(***************************************************************************)
(* More claims about the knowledge base.                                   *)
(***************************************************************************)
IngestTools == {"knowledge_ingest", "knowledge_ingest_file"}

\* C15: an ingest in which the embedding of a chunk fails raises to the
\* caller and leaves the knowledge collection as it was: no document of
\* the ingest is stored, and a collection that was not open is neither
\* opened nor created.
C15_IngestAllOrNothing ==
    [][ (now' = now /\ last'.tool \in IngestTools /\ last'.val = <<"embed">>) =>
            /\ last'.outcome = "raise"
            /\ kb' = kb
      ]_vars

\* The embedding failed in an ingest of a text of two chunks, on a
\* collection never opened.
C15_Witness ==
    /\ last.tool = "knowledge_ingest"
    /\ last.outcome = "raise"
    /\ last.val = <<"embed">>
    /\ Len(last.args[1]) > cfg.chunk_size
    /\ kb.col = "None"
    /\ ~kb.exists

\* The source under which an ingest call stores its chunks.
IngestSource(c) == IF c.tool = "knowledge_ingest" THEN c.args[2] ELSE Resolve(c.args[1]).p

\* The text an ingest call chunks.
IngestText(c) == IF c.tool = "knowledge_ingest" THEN c.args[1] ELSE read_text(Resolve(c.args[1]).p)

\* C17: an ingest of n chunks under a source writes exactly the documents
\* chunk_id(source, 0) .. chunk_id(source, n - 1), each with its index, its
\* chunk and the time of the call, and leaves every other stored document
\* as it was, the chunks of the same source with index >= n included.
C17_IngestWritesOnlyItsChunks ==
    [][ (now' = now /\ last'.tool \in IngestTools /\ last'.outcome = "return"
            /\ last'.status = "ok") =>
            LET s == IngestSource(last')
                n == last'.n
                cs == chunk_text(IngestText(last'), cfg.chunk_size, cfg.chunk_overlap).chunks
                ids == {make_chunk_id(s, k) : k \in 0..(n - 1)}
            IN  /\ n = Len(cs)
                /\ DOMAIN kb'.docs = DOMAIN kb.docs \cup ids
                /\ \A k \in 0..(n - 1) :
                        kb'.docs[make_chunk_id(s, k)] =
                            [source |-> s, chunk_idx |-> k, text |-> cs[k + 1],
                             created_at |-> now]
                /\ \A j \in DOMAIN kb.docs \ ids : kb'.docs[j] = kb.docs[j]
                /\ \A j \in DOMAIN kb.docs :
                        (kb.docs[j].source = s /\ kb.docs[j].chunk_idx >= n) =>
                            (j \in DOMAIN kb'.docs /\ kb'.docs[j] = kb.docs[j])
      ]_vars

\* A one-chunk text has just been ingested under a source that still has
\* chunk 1 of an earlier, longer ingestion.
C17_Witness ==
    /\ last.tool = "knowledge_ingest"
    /\ last.outcome = "return"
    /\ last.n = 1
    /\ now = 1
    /\ kb.docs[make_chunk_id(last.args[2], 0)].created_at = 1
    /\ \E j \in DOMAIN kb.docs :
            /\ kb.docs[j].source = last.args[2]
            /\ kb.docs[j].chunk_idx = 1
            /\ kb.docs[j].created_at = 0

(***************************************************************************)
(* Claims about identifiers.                                               *)
(***************************************************************************)
\* C16: the id under which a chunk or a memory is stored is a function of
\* (source, chunk index), respectively of the text, and of nothing else:
\* whenever and however often an input was ingested or remembered, in this
\* run or an earlier one, it is stored once, under chunk_id(source, index)
\* respectively memory_id(text), and remember returns that id.
C16_IdsDependOnInputsOnly ==
    /\ \A i \in DOMAIN kb.docs :
            /\ i = make_chunk_id(kb.docs[i].source, kb.docs[i].chunk_idx)
            /\ \A j \in DOMAIN kb.docs :
                    (kb.docs[j].source = kb.docs[i].source
                        /\ kb.docs[j].chunk_idx = kb.docs[i].chunk_idx) => j = i
    /\ \A i \in DOMAIN mem.docs :
            /\ i = memory_id(mem.docs[i].text)
            /\ \A j \in DOMAIN mem.docs : mem.docs[j].text = mem.docs[i].text => j = i
    /\ (last.tool = "memory_remember" /\ last.outcome = "return") =>
            /\ last.val \in DOMAIN mem.docs
            /\ mem.docs[last.val].text = last.args[1]

\* Chunk 0 of a source written again at a later time than chunk 1, and a
\* memory remembered again at a later time with another category.
C16_Witness ==
    /\ \E i, j \in DOMAIN kb.docs :
            /\ kb.docs[i].chunk_idx = 0
            /\ kb.docs[i].created_at = 1
            /\ kb.docs[j].chunk_idx = 1
            /\ kb.docs[j].created_at = 0
    /\ Cardinality(DOMAIN kb.docs) = 2
    /\ last.tool = "memory_remember"
    /\ last.outcome = "return"
    /\ last.was # NoneVal
    /\ last.was # last.args[2]
    /\ mem.docs[last.val].created_at = 1

(***************************************************************************)
(* Claims about where _chunk_text cuts, checked under SpecCut.             *)
(***************************************************************************)
\* The positions i in [lo, hi) at which marker sep occurs in t, sep wholly
\* inside the range (positions count from 0).
Occurrences(t, sep, lo, hi) ==
    {i \in lo..(hi - Len(sep)) :
        i + Len(sep) <= Len(t) /\ \A k \in 1..Len(sep) : t[i + k] = sep[k]}

\* The cut of the window at st when the markers are seps, in priority
\* order: right after the last occurrence in [st + size/2, st + size) of the
\* first marker of seps that occurs there; else right after the last space
\* there; else st + size.
PriorityCut(t, sz, st, seps) ==
    LET lo == st + (sz \div 2)
        hi == st + sz
        present == {k \in 1..Len(seps) : Occurrences(t, seps[k], lo, hi) # {}}
        spaces == Occurrences(t, <<" ">>, lo, hi)
    IN  IF present # {}
        THEN LET k == CHOOSE k \in present : \A j \in present : k <= j
             IN  SetMax(Occurrences(t, seps[k], lo, hi)) + Len(seps[k])
        ELSE IF spaces # {} THEN SetMax(spaces) + 1
        ELSE hi

\* Every chunk appended from a window that is not the tail ends at the
\* cut PriorityCut gives for seps.
CutsFollow(seps) ==
    Len(text) > size =>
        \A k \in 1..Len(spans) :
            spans[k][1] + size < Len(text) =>
                spans[k][2] = PriorityCut(text, size, spans[k][1], seps)

\* The markers as C18 names them: a period followed by a double newline, a
\* double newline, a single newline, period-space, exclamation-space,
\* question-space.
MarkersAsClaimed ==
    << <<".", "\n", "\n">>, <<"\n", "\n">>, <<"\n">>, <<".", " ">>, <<"!", " ">>,
       <<"?", " ">> >>

\* The same with a period followed by one newline as the first marker.
MarkersAmended ==
    << <<".", "\n">>, <<"\n", "\n">>, <<"\n">>, <<".", " ">>, <<"!", " ">>, <<"?", " ">> >>

\* C18 as stated: in every window that is not the tail the cut is right
\* after the last occurrence in range of the highest-priority marker present
\* (double-newline-after-period, double-newline, single-newline,
\* period-space, exclamation-space, question-space), else right after the
\* last space in range, else at start + size.
C18_CutAtHighestPriorityMarker == CutsFollow(MarkersAsClaimed)

\* C18 amended: the same with the first marker a period followed by a
\* single newline.
C18_CutAtHighestPriorityMarkerAmended == CutsFollow(MarkersAmended)

\* A window of size 5 whose range holds ".\n" and, later, "\n\n": the cut is
\* right after ".\n", and the second newline opens the next chunk.
C18_Witness ==
    /\ cpc = "done"
    /\ size = 5
    /\ overlap = 0
    /\ Len(text) = 6
    /\ SubSeq(text, 3, 5) = <<".", "\n", "\n">>
    /\ spans = << <<0, 4>>, <<4, 6>> >>

\* C19: every chunk, the first and the last included, has at most size
\* characters.
C19_ChunkAtMostSize == \A k \in 1..Len(chunks) : Len(chunks[k]) <= size

\* Three chunks returned, the first and the last of exactly size characters.
C19_Witness ==
    /\ cpc = "done"
    /\ Len(chunks) = 3
    /\ overlap > 0
    /\ Len(chunks[1]) = size
    /\ Len(chunks[3]) = size

\* C20: every chunk that is not the final tail is longer than size/2
\* characters.
C20_NonFinalChunkOverHalf ==
    \A k \in 1..Len(chunks) :
        (k < Len(chunks) \/ cpc \in {"loop", "diverged"}) => 2 * Len(chunks[k]) > size

\* A space in the first half of the first window, not used as a cut: the
\* first chunk runs to the cut found in the second half.
C20_Witness ==
    /\ cpc = "done"
    /\ size = 4
    /\ Len(chunks) >= 2
    /\ text[2] = " "
    /\ text[4] = " "
    /\ spans[1] = <<0, 4>>

(***************************************************************************)
(* Claims about the overlap of consecutive chunks.                         *)
(***************************************************************************)
\* The number of characters of the text that chunks k and k + 1 share.
Shared(k) == Min2(spans[k][2], spans[k + 1][2]) - spans[k + 1][1]

\* Chunk k + 1 starts at the cut of chunk k minus overlap, clamped to 0.
StartsAtCutMinusOverlap(k) ==
    spans[k + 1][1] = (IF spans[k][2] - overlap < 0 THEN 0 ELSE spans[k][2] - overlap)

\* C21: every chunk after the first starts at (cut of its predecessor -
\* overlap), clamped to 0, and shares exactly overlap characters of the
\* text with its predecessor except where the clamp applies.
C21_ConsecutiveChunksShareOverlap ==
    \A k \in 1..(Len(spans) - 1) :
        /\ StartsAtCutMinusOverlap(k)
        /\ (cpc = "done" /\ spans[k][2] - overlap >= 0) => Shared(k) = overlap

\* Three chunks returned, each sharing two characters with its predecessor.
C21_Witness ==
    /\ cpc = "done"
    /\ overlap = 2
    /\ Len(spans) = 3
    /\ Shared(1) = 2
    /\ Shared(2) = 2
    /\ chunks[2] = Slice(text, spans[1][2] - 2, spans[2][2])

(***************************************************************************)
(* Claims about the source label of an ingested file.                      *)
(***************************************************************************)
\* The ids of the chunks the knowledge_ingest_file call recorded in c stored.
FileChunkIds(c) == {make_chunk_id(Resolve(c.args[1]).p, k) : k \in 0..(c.n - 1)}

IngestedFile(c) ==
    c.tool = "knowledge_ingest_file" /\ c.outcome = "return" /\ c.status = "ok"

\* The "source" of the response is the label the chunks of the call are
\* stored under.
ReturnedSourceIsStored(c, docs) ==
    \A i \in FileChunkIds(c) : i \in DOMAIN docs /\ docs[i].source = c.val

\* A knowledge_delete_source called next with the returned source returns
\* and removes exactly the chunks of the ingest.
DeleteByReturnedSource ==
    (IngestedFile(last) /\ now' = now /\ last'.tool = "knowledge_delete_source"
        /\ last'.args[1] = last.val) =>
            /\ last'.outcome = "return"
            /\ kb'.docs = [i \in DOMAIN kb.docs \ FileChunkIds(last) |-> kb.docs[i]]

\* C22: for every path spelling, the source a successful
\* knowledge_ingest_file returns is the label its chunks are stored under,
\* and a following knowledge_delete_source with the returned source removes
\* exactly those chunks.
C22_ReturnedSourceDeletesIngest ==
    [][ /\ (now' = now /\ IngestedFile(last')) => ReturnedSourceIsStored(last', kb'.docs)
        /\ DeleteByReturnedSource
      ]_vars

\* What the code keeps of C22: for a path that is already what
\* expanduser().resolve() makes of it.
ReturnedSourceDeletesIngestResolved ==
    [][ /\ (now' = now /\ IngestedFile(last') /\ Resolve(last'.args[1]).p = last'.args[1])
            => ReturnedSourceIsStored(last', kb'.docs)
        /\ (IngestedFile(last) /\ Resolve(last.args[1]).p = last.args[1])
            => DeleteByReturnedSource
      ]_vars

\* A caller of SpecOpen took the create branch of open() on its store.
Created(t) == tloc[t].call = "create_and_open"

\* C23: when two callers concurrently make the first access to a collection
\* whose path does not exist, create_and_open is issued at most once for
\* that path: no two callers of the same store both take the create branch
\* of open().
C23_CreateIssuedAtMostOnce ==
    \A t, u \in Callers :
        (t # u /\ tloc[t].which = tloc[u].which /\ Created(t)) => ~Created(u)

\* What the code does guarantee: a caller issues at most one engine call in
\* open(), and issues create_and_open only from the create branch.
AtMostOneEngineCallPerCaller ==
    [][ \A t \in Callers :
            (Created(t)' /\ ~Created(t)) => (tpc[t] = "zvec_create" /\ tloc[t].call = "") ]_vars
====
